---- MODULE Spec2Model ----
(***************************************************************************)
(* Host-side tools of the compellent repository:                           *)
(*   scripts/delete_devices.py      (delete_devices, disk_associations)    *)
(*   scripts/change_wwid_alias.py   (process_aliases, update_config, main) *)
(*   compellent/change_wwid_alias.py (the Python 2 variant of the same)    *)
(* and the array side of the package:                                      *)
(*   compellent/utils.py      (refresh, resolve_host, minutes_conversion)  *)
(*   compellent/connection.py (the import of the module)                   *)
(*   compellent/__main__.py   (main)                                       *)
(*                                                                         *)
(* A device path is a record [kind, name, part]: kind "dev" is             *)
(* /dev/<name><part> and kind "mapper" is /dev/mapper/<name>, where name   *)
(* is the leading run of word characters of the device-mapper name.        *)
(* A line of multipath.conf is a sequence of tokens; the text of the line  *)
(* is the concatenation of its tokens followed by a newline.               *)
(***************************************************************************)
EXTENDS Integers, Sequences, FiniteSets, TLC

VARIABLES
    prog,          \* which program this run executes
    pc,            \* position of the program
    groups,        \* multipath state: alias -> set of member disks
    mounted,       \* sources of mounted ext2/ext3/ext4/xfs filesystems (paths)
    pvs,           \* LVM physical volumes (paths)
    argStd,        \* delete_devices: --standard arguments
    argMp,         \* delete_devices: --multipath arguments
    assume_yes,    \* --assume_yes
    protected_devices, \* delete_devices: protected set of this invocation
    blocked,       \* delete_devices: selected_protected_devices
    aliases,       \* delete_devices: alias selection iterated by the flush loop
    disks,         \* delete_devices: disk selection iterated by the delete loop
    flushed,       \* aliases for which 'multipath -f' was run
    deleted,       \* disks whose state/delete control files were written
    verbose,       \* delete_devices: --verbose
    reported,      \* delete_devices: devices named in the refusal message
    flush_failed,  \* aliases whose 'multipath -f' ended with a non-zero code
    write_failed,  \* disks whose control file could not be written
    impl,          \* change_wwid_alias.py: "scripts" or "compellent"
    listing,       \* device lines of 'multipath -ll'
    argPairs,      \* change_wwid_alias: the wwid:alias arguments
    wwids,         \* the wwid -> alias dictionary, as wwids.items() yields it
    conf0,         \* /etc/multipath.conf when the program started
    conf1,         \* /etc/multipath.conf after the first update_config
    conf,          \* /etc/multipath.conf
    updates,       \* number of update_config calls made
    answer,        \* what the operator typed at the prompt
    reloaded,      \* multipathd was reloaded
    src_server,    \* refresh: the src_server argument
    dest_server,   \* refresh: the dest_server argument
    argv,          \* compellent main: the command line
    hostname,      \* resolve_host: the hostname argument
    domains,       \* resolve_host: the list passed as domains
    dns,           \* the names socket.gethostbyname resolves
    requests,      \* requests sent to the Dell Storage Manager, in order
    lookups,       \* number of host names handed to socket.gethostbyname
    call,          \* the last function or method called, with its arguments
    returned,      \* what the last call returned
    raised,        \* the exception the last call raised, "" if it returned
    message,       \* the message of that exception
    time_string    \* minutes_conversion: the time argument

hostVars == <<groups, mounted, pvs, listing>>
delVars == <<argStd, argMp, protected_devices, blocked, aliases, disks, flushed, deleted,
             verbose, reported, flush_failed, write_failed>>
cfgVars == <<impl, argPairs, wwids, conf0, conf1, conf, updates, answer, reloaded>>
dsmVars == <<src_server, dest_server, argv, hostname, domains, dns, requests,
             lookups, call, returned, raised, message, time_string>>
vars == <<prog, pc, assume_yes, hostVars, delVars, cfgVars, dsmVars>>

\* no refresh, no session with the Dell Storage Manager
NoSession ==
    /\ src_server = <<>> /\ dest_server = <<>> /\ argv = <<>>
    /\ hostname = <<>> /\ domains = <<>> /\ dns = {}
    /\ requests = <<>> /\ lookups = 0
    /\ call = <<>> /\ returned = <<>> /\ raised = "" /\ message = ""
    /\ time_string = <<>>

----------------------------------------------------------------------------
(* Bounds of the enumerated host states and requests *)

\* at most this many mounted filesystems in a host state
MaxMounted == 1
\* at most this many LVM physical volumes in a host state
MaxPVs == 1
\* at most this many names on the delete_devices command line
MaxRequested == 2
\* at most this many devices listed by 'multipath -ll'
MaxDevices == 2
\* at most this many wwid:alias arguments
MaxPairs == 2
\* at most this many lines in an enumerated multipath.conf
MaxLines == 5
\* at most this many entries in an enumerated wwid -> alias dictionary
MaxEntries == 2

----------------------------------------------------------------------------
(* The host of delete_devices *)

AliasNames == {"testvol1", "testvol2"}

\* the path disks an alias can have, in the order they are brought up
PathPool(a) ==
    IF a = "testvol1" THEN <<"sdc">> ELSE <<"sdg", "sdh", "sdi", "sdj">>

Range(s) == {s[i] : i \in DOMAIN s}

BlockDevices == {"sda", "sdc", "sdg", "sdh", "sdi", "sdj", "sr0"}

DevPath(n, p) == [kind |-> "dev", name |-> n, part |-> p]
MapperPath(n) == [kind |-> "mapper", name |-> n, part |-> ""]

MountSources ==
    {DevPath("sda", "2"), DevPath("sdc", "1"), DevPath("sdg", "1"),
     MapperPath("testvol1"), MapperPath("testvol2"), MapperPath("vgROOT")}

PvNames ==
    {DevPath("sda", "3"), DevPath("sdc", ""), DevPath("sdg", ""),
     MapperPath("testvol1"), MapperPath("testvol2")}

\* the multipath states: every subset of the aliases is listed, each alias
\* with some prefix of its path pool
GroupStates ==
    UNION {{g \in [S -> SUBSET BlockDevices] :
                \A a \in S :
                    \E k \in 0..Len(PathPool(a)) :
                        g[a] = {PathPool(a)[i] : i \in 1..k}} :
           S \in SUBSET AliasNames}

BoundedSubsets(S, n) == {T \in SUBSET S : Cardinality(T) <= n}

\* names that can be given with --standard and with --multipath
StdNames == {"sda", "sdc", "sdg", "sdh", "sr0"}
MpNames == AliasNames

----------------------------------------------------------------------------
(* disk_associations *)

\* re_mounted: the 'disk' group of a match, "" when the group did not take part
re_mounted_disk(p) == IF p.kind = "dev" THEN p.name ELSE ""

\* re_mounted: the 'alias' group of a match
re_mounted_alias(p) == IF p.kind = "mapper" THEN p.name ELSE ""

\* re_lvm: the 'disk' group; [a-zA-Z]+ after /dev/ stops at the first
\* character that is no letter, which for /dev/mapper/<x> is the second slash
re_lvm_disk(p) == IF p.kind = "dev" THEN p.name ELSE "mapper"

\* what one mounted source adds to the protected set
mounted_protected(g, p) ==
    IF re_mounted_disk(p) # ""
    THEN {re_mounted_disk(p)}
    ELSE {re_mounted_alias(p)} \cup
         (IF re_mounted_alias(p) \in DOMAIN g THEN g[re_mounted_alias(p)] ELSE {})

\* the 'protected' entry of the dictionary disk_associations returns
disk_associations_protected(g, m, v) ==
    UNION {mounted_protected(g, p) : p \in m} \cup {re_lvm_disk(p) : p \in v}

----------------------------------------------------------------------------
(* delete_devices, up to the confirmation *)

\* the groups a requested disk belongs to
groups_of(g, ds) == {a \in DOMAIN g : \E d \in ds : d \in g[a]}

\* expand_aliases with a fault: the loop leaves out aliases.add(group)
expand_aliases_without_add(g, ds, as) == as

\* aliases after the loop that adds the groups of the requested disks
expand_aliases(g, ds, as) == as \cup groups_of(g, ds)

\* disks after the loop that adds the groups of the requested disks
expand_disks(g, ds) == ds \cup UNION {g[a] : a \in groups_of(g, ds)}

selected_protected_devices(g, prot, ds, as) ==
    (prot \cap expand_disks(g, ds)) \cup (prot \cap expand_aliases(g, ds, as))

\* the alias selection the flush loop iterates
final_aliases(g, prot, ds, as) ==
    IF selected_protected_devices(g, prot, ds, as) # {}
    THEN expand_aliases(g, ds, as) \ prot
    ELSE expand_aliases(g, ds, as)

\* the disk selection after the subtraction of the protected devices
unprotected_disks(g, prot, ds, as) ==
    IF selected_protected_devices(g, prot, ds, as) # {}
    THEN expand_disks(g, ds) \ prot
    ELSE expand_disks(g, ds)

\* final_disks with a fault: the members of the remaining aliases are not added
final_disks_without_members(g, prot, ds, as) == unprotected_disks(g, prot, ds, as)

\* the disk selection the delete loop iterates: the members of every
\* remaining alias are added after the subtraction
final_disks(g, prot, ds, as) ==
    unprotected_disks(g, prot, ds, as) \cup
    UNION {g[a] : a \in final_aliases(g, prot, ds, as)}

----------------------------------------------------------------------------
(* delete_devices.py: main and delete_devices *)

\* starts_with_sd with a fault: the first character alone is compared
starts_with_s(d) == d \in {"sda", "sdc", "sdg", "sdh", "sdi", "sdj", "sr0"}

\* block devices main accepts: the names of /sys/block that start with 'sd'
starts_with_sd(d) == d \in {"sda", "sdc", "sdg", "sdh", "sdi", "sdj"}
valid_disks == {d \in BlockDevices : starts_with_sd(d)}

\* aliases main accepts: the output of 'multipath -l -v 1'
valid_multipaths == DOMAIN groups

InitDelete ==
    /\ prog = "delete_devices"
    /\ pc = "main"
    /\ groups \in GroupStates
    /\ mounted \in BoundedSubsets(MountSources, MaxMounted)
    /\ pvs \in BoundedSubsets(PvNames, MaxPVs)
    /\ argStd = {} /\ argMp = {}
    /\ assume_yes = FALSE
    /\ protected_devices = {} /\ blocked = {}
    /\ aliases = {} /\ disks = {}
    /\ flushed = {} /\ deleted = {}
    /\ verbose = FALSE /\ reported = {}
    /\ flush_failed = {} /\ write_failed = {}
    /\ impl = "scripts" /\ listing = <<>> /\ argPairs = <<>> /\ wwids = <<>>
    /\ conf0 = <<>> /\ conf1 = <<>> /\ conf = <<>>
    /\ updates = 0 /\ answer = "" /\ reloaded = FALSE
    /\ NoSession

\* the devices named in 'Refusing to delete the following protected
\* devices: ...', which is printed under 'if verbose:' only
refusal_message(vb, selected) == IF vb THEN selected ELSE {}

\* main rejects the command line: sys.exit before delete_devices is called
MainExit(std, mp, yes, vb) ==
    /\ \/ std \ valid_disks # {}
       \/ mp \ valid_multipaths # {}
       \/ std = {} /\ mp = {}
    /\ pc' = "exit"
    /\ argStd' = std /\ argMp' = mp /\ assume_yes' = yes /\ verbose' = vb
    /\ UNCHANGED <<dsmVars, prog, hostVars, protected_devices, blocked, aliases, disks,
                   flushed, deleted, reported, flush_failed, write_failed, cfgVars>>

\* main calls delete_devices, which runs up to the confirmation
MainSelect(std, mp, yes, vb) ==
    /\ std \subseteq valid_disks
    /\ mp \subseteq valid_multipaths
    /\ std # {} \/ mp # {}
    /\ LET prot == disk_associations_protected(groups, mounted, pvs) IN
        /\ protected_devices' = prot
        /\ blocked' = selected_protected_devices(groups, prot, std, mp)
        /\ reported' = refusal_message(vb, selected_protected_devices(groups, prot, std, mp))
        /\ aliases' = final_aliases(groups, prot, std, mp)
        /\ disks' = final_disks(groups, prot, std, mp)
    /\ pc' = "confirm"
    /\ argStd' = std /\ argMp' = mp /\ assume_yes' = yes /\ verbose' = vb
    /\ UNCHANGED <<dsmVars, prog, hostVars, flushed, deleted, flush_failed,
                   write_failed, cfgVars>>

DeleteMain ==
    /\ prog = "delete_devices"
    /\ pc = "main"
    /\ \E std \in SUBSET StdNames, mp \in SUBSET MpNames, yes \in BOOLEAN, vb \in BOOLEAN :
        /\ Cardinality(std) + Cardinality(mp) <= MaxRequested
        /\ \/ MainExit(std, mp, yes, vb)
           \/ MainSelect(std, mp, yes, vb)

\* on the hosts enumerated: the aliases whose map can be in use, so that
\* 'multipath -f' can end with a non-zero code, and the disks whose control
\* files can be gone when the delete loop opens them
BusyAliases == {"testvol2"}
DetachedDisks == {"sdg"}

\* delete_loop with a fault: a disk that is protected when the loop reaches it
\* is passed over
delete_loop_rechecked(ds, g, m, v) == ds \ disk_associations_protected(g, m, v)

\* the disks the delete loop iterates: the selection as it stood at the
\* confirmation, whatever is mounted or a physical volume by now
delete_loop(ds, g, m, v) == ds

\* assume_yes and the loops have not come to their end
InLoops ==
    /\ prog = "delete_devices"
    /\ assume_yes
    /\ pc \in {"confirm", "flushing", "deleting"}

\* where delete_devices is when fl has been flushed and del written
loops_pc(fl, del) ==
    IF fl # aliases THEN "flushing"
    ELSE IF delete_loop(disks, groups, mounted, pvs) \ del # {} THEN "deleting"
    ELSE "done"

\* one turn of the flush loop: 'multipath -f' is run for an alias and main
\* waits for it; a non-zero exit code prints an error and the loop goes on
\* (a set is iterated in no particular order)
DeleteFlush ==
    /\ InLoops
    /\ \E a \in aliases \ flushed :
        /\ flushed' = flushed \cup {a}
        /\ \/ UNCHANGED flush_failed
           \/ a \in BusyAliases /\ flush_failed' = flush_failed \cup {a}
        /\ pc' = loops_pc(flushed \cup {a}, deleted)
    /\ UNCHANGED <<dsmVars, prog, assume_yes, hostVars, argStd, argMp, protected_devices,
                   blocked, aliases, disks, deleted, verbose, reported, write_failed,
                   cfgVars>>

\* one turn of the delete loop, which starts when the flush loop has ended:
\* 'offline' and '1' are written to the control files of a disk.  A control
\* file that cannot be opened raises OSError, which nothing catches: the
\* disks the loop has not reached stay as they are.
DeleteWrite ==
    /\ InLoops
    /\ flushed = aliases
    /\ \E d \in delete_loop(disks, groups, mounted, pvs) \ deleted :
        \/ /\ deleted' = deleted \cup {d}
           /\ pc' = loops_pc(flushed, deleted \cup {d})
           /\ UNCHANGED write_failed
        \/ /\ d \in DetachedDisks
           /\ write_failed' = {d}
           /\ pc' = "error"
           /\ UNCHANGED deleted
    /\ UNCHANGED <<dsmVars, prog, assume_yes, hostVars, argStd, argMp, protected_devices,
                   blocked, aliases, disks, flushed, verbose, reported, flush_failed,
                   cfgVars>>

\* no assume_yes and something selected: the prompt calls raw_input, a name
\* Python 3 does not define, and the NameError ends the program
DeletePrompt ==
    /\ prog = "delete_devices"
    /\ pc = "confirm"
    /\ ~assume_yes
    /\ aliases # {} \/ disks # {}
    /\ pc' = "error"
    /\ UNCHANGED <<dsmVars, prog, assume_yes, hostVars, delVars, cfgVars>>

\* nothing is left selected: with assume_yes the loops have nothing to
\* iterate, without it the prompt is passed over; delete_devices returns
DeleteNothing ==
    /\ prog = "delete_devices"
    /\ pc = "confirm"
    /\ aliases = {} /\ disks = {}
    /\ pc' = "done"
    /\ UNCHANGED <<dsmVars, prog, assume_yes, hostVars, delVars, cfgVars>>

NextDelete ==
    DeleteMain \/ DeleteFlush \/ DeleteWrite \/ DeletePrompt \/ DeleteNothing

SpecDelete == InitDelete /\ [][NextDelete]_vars

\* delete_devices has called disk_associations and has not ended
Running == prog = "delete_devices" /\ pc \in {"confirm", "flushing", "deleting"}

\* what the other processes of the host mount and make a physical volume
\* while delete_devices runs
LateMounts == {DevPath("sda", "2"), DevPath("sdg", "1"), MapperPath("testvol1")}
LatePvs == {DevPath("sdc", ""), MapperPath("testvol2")}

\* another process mounts a filesystem after disk_associations has read the
\* mount table: before the loops, between them or between two of their turns
HostMount ==
    /\ Running
    /\ Cardinality(mounted) < MaxMounted
    /\ \E p \in LateMounts \ mounted : mounted' = mounted \cup {p}
    /\ UNCHANGED <<dsmVars, prog, pc, assume_yes, groups, pvs, listing, delVars, cfgVars>>

\* another process runs pvcreate in the same window
HostPvcreate ==
    /\ Running
    /\ Cardinality(pvs) < MaxPVs
    /\ \E p \in LatePvs \ pvs : pvs' = pvs \cup {p}
    /\ UNCHANGED <<dsmVars, prog, pc, assume_yes, groups, mounted, listing, delVars, cfgVars>>

\* delete_devices on a host where other processes are at work; nothing is
\* protected when the selection is made, so the selection is never empty
NextDeleteRace ==
    \/ DeleteMain \/ DeleteFlush \/ DeleteWrite \/ DeletePrompt
    \/ HostMount \/ HostPvcreate

\* nothing is mounted and nothing is a physical volume when the run starts
InitDeleteRace == InitDelete /\ mounted = {} /\ pvs = {}

SpecDeleteRace == InitDeleteRace /\ [][NextDeleteRace]_vars

----------------------------------------------------------------------------
(* change_wwid_alias.py: multipath.conf as lines of tokens *)

W1 == "36000d31000d5f00000000000000000a5"
W2 == "36000d31000d5f00000000000000000a6"
W9 == "36000d31000d5f00000000000000000a9"

LineKeywordOpen == <<"multipaths", " ", "{">>
LineKeyword == <<"multipaths">>
LineKeywordInline == <<"multipaths", " ", "{", " ", "}">>
LineOpen == <<"{">>
LineClose == <<"}">>
LineDefaults == <<"defaults", " ", "{">>
LineOption == <<"\t", "user_friendly_names", " ", "yes">>
LineComment == <<"#", " ", "devices", " ", "{">>
LineBlank == <<>>

\* the lines update_config prints for one dictionary entry, at tab_level 1
LineMultipath == <<"\t", "multipath", " ", "{">>
LineWwid(w) == <<"\t", "\t", "wwid", "\t", w>>
LineAlias(a) == <<"\t", "\t", "alias", "\t", a>>
LineMultipathClose == <<"\t", "}">>

IsSpace(t) == t \in {" ", "\t"}

\* first token of the line that is no white space, "" for a blank line
RECURSIVE FirstWord(_)
FirstWord(line) ==
    IF line = <<>> THEN ""
    ELSE IF IsSpace(Head(line)) THEN FirstWord(Tail(line))
    ELSE Head(line)

\* re_comment, which update_config compiles and never uses
re_comment(line) == FirstWord(line) = "#"

re_open(line) == \E i \in DOMAIN line : line[i] = "{"
re_close(line) == \E i \in DOMAIN line : line[i] = "}"
re_multipaths(line) == FirstWord(line) = "multipaths"

\* the multipath blocks printed in the loop over wwids.items(); table holds
\* the items in the order the loop takes them
RECURSIVE multipath_entries(_)
multipath_entries(table) ==
    IF table = <<>> THEN <<>>
    ELSE <<LineMultipath, LineWwid(Head(table)[1]), LineAlias(Head(table)[2]),
           LineMultipathClose>> \o multipath_entries(Tail(table))

\* bracket_level after the '{' and '}' tests of one line
bracket_after(line, level) ==
    level + (IF re_open(line) THEN 1 ELSE 0) - (IF re_close(line) THEN 1 ELSE 0)

\* multipaths_block after the '}' test of one line
block_after(line, level, block) ==
    IF re_close(line) /\ block /\ bracket_after(line, level) = 0
    THEN FALSE
    ELSE block

\* the fileinput loop: the lines printed and the multipath_configured flag
RECURSIVE rewrite_lines(_, _, _, _, _, _)
rewrite_lines(lines, table, level, block, configured, out) ==
    IF lines = <<>> THEN [out |-> out, configured |-> configured]
    ELSE LET line == Head(lines)
             lvl == bracket_after(line, level)
             blk == block_after(line, level, block)
         IN  IF re_multipaths(line)
             THEN rewrite_lines(Tail(lines), table, lvl, TRUE, TRUE,
                                out \o <<line>> \o multipath_entries(table))
             ELSE IF blk
             THEN rewrite_lines(Tail(lines), table, lvl, blk, configured, out)
             ELSE rewrite_lines(Tail(lines), table, lvl, blk, configured,
                                out \o <<line>>)

\* the block scripts/change_wwid_alias.py appends when no line matched
appended_block(table) ==
    <<LineBlank, LineKeywordOpen>> \o multipath_entries(table) \o <<LineClose>>

\* update_config of scripts/change_wwid_alias.py
update_config_scripts(lines, table) ==
    LET r == rewrite_lines(lines, table, 0, FALSE, FALSE, <<>>) IN
    IF ~r.configured /\ table # <<>>
    THEN r.out \o appended_block(table)
    ELSE r.out

\* update_config of compellent/change_wwid_alias.py: the loop alone
update_config_compellent(lines, table) ==
    rewrite_lines(lines, table, 0, FALSE, FALSE, <<>>).out

update_config(variant, lines, table) ==
    IF variant = "scripts"
    THEN update_config_scripts(lines, table)
    ELSE update_config_compellent(lines, table)

----------------------------------------------------------------------------
(* wwid_alias and process_aliases *)

\* a dictionary is the sequence of its items in the order they were inserted
DictKeys(table) == {table[i][1] : i \in DOMAIN table}

DictGet(table, k) ==
    LET i == CHOOSE j \in DOMAIN table : table[j][1] = k IN table[i][2]

\* table[k] = v of a Python dictionary that keeps insertion order
DictSet(table, k, v) ==
    IF k \in DictKeys(table)
    THEN [i \in DOMAIN table |-> IF table[i][1] = k THEN <<k, v>> ELSE table[i]]
    ELSE Append(table, <<k, v>>)

\* re_multipath of wwid_alias matches the lines of Compellent volumes
RECURSIVE wwid_alias(_)
wwid_alias(devs) ==
    IF devs = <<>> THEN <<>>
    ELSE LET d == devs[Len(devs)]
             rest == wwid_alias(SubSeq(devs, 1, Len(devs) - 1))
         IN  IF d.vendor = "COMPELNT,Compellent Vol"
             THEN DictSet(rest, d.wwid, d.alias)
             ELSE rest

\* the orders in which wwids.items() can yield the items of a dictionary,
\* the same on every iteration of one dictionary: the order of insertion
\* under the Python 3 of scripts/, an order that follows the hashes of the
\* keys, so any order, under the Python 2 of compellent/
dict_items(variant, table) ==
    IF variant = "scripts"
    THEN {table}
    ELSE {s \in [DOMAIN table -> Range(table)] : Range(s) = Range(table)}

\* re_pair: a word, a colon, a word at the start of the argument
re_pair(pair) ==
    /\ Len(pair) >= 3
    /\ pair[1] \notin {":", ""}
    /\ pair[2] = ":"
    /\ pair[3] \notin {":", ""}

\* findmnt --source /dev/mapper/<alias> printed a mount point
is_mounted(m, a) == MapperPath(a) \in m

\* process_pair with a fault: the mount check is left out
process_pair_unchecked(table, pair, m) ==
    IF pair[1] \in DictKeys(table) THEN DictSet(table, pair[1], pair[3]) ELSE table

\* the body of the loop of process_aliases for one well-formed pair
process_pair(table, pair, m) ==
    IF pair[1] \in DictKeys(table)
    THEN IF is_mounted(m, DictGet(table, pair[1]))
         THEN table
         ELSE DictSet(table, pair[1], pair[3])
    ELSE table

\* process_aliases: ok is FALSE when an argument stopped the program
RECURSIVE process_aliases(_, _, _)
process_aliases(table, pairs, m) ==
    IF pairs = <<>> THEN [ok |-> TRUE, table |-> table]
    ELSE IF re_pair(Head(pairs))
    THEN process_aliases(process_pair(table, Head(pairs), m), Tail(pairs), m)
    ELSE [ok |-> FALSE, table |-> table]

----------------------------------------------------------------------------
(* change_wwid_alias.py: main *)

lower(s) == IF s = "Y" THEN "y" ELSE IF s = "N" THEN "n" ELSE s

\* confirmed with a fault: anything but 'n' counts as consent
confirmed_unless_no(yes, ans) == yes \/ lower(ans) # "n"

\* the gate of main
confirmed(yes, ans) == yes \/ lower(ans) = "y"

Answers == {"y", "Y", "n", ""}

\* first character of the release number of the distribution
Releases == {"6", "7", "8"}

DeviceLines ==
    <<[alias |-> "testvol1", wwid |-> W1, vendor |-> "COMPELNT,Compellent Vol"],
      [alias |-> "testvol2", wwid |-> W2, vendor |-> "COMPELNT,Compellent Vol"],
      [alias |-> "mpatha", wwid |-> W9, vendor |-> "NETAPP,LUN"]>>

RECURSIVE Pick(_, _)
\* the subsequence of s at the positions in I
Pick(s, I) ==
    IF s = <<>> THEN <<>>
    ELSE Pick(SubSeq(s, 1, Len(s) - 1), I) \o
         (IF Len(s) \in I THEN <<s[Len(s)]>> ELSE <<>>)

Listings ==
    {Pick(DeviceLines, I) : I \in BoundedSubsets(DOMAIN DeviceLines, MaxDevices)}

PairArgs ==
    {<<W1, ":", "data1">>, <<W1, ":", "data2">>, <<W2, ":", "data1">>,
     <<W9, ":", "data1">>, <<W1>>, <<W1, ":", "data2", ":", "x">>}

BoundedSeqs(S, n) == UNION {[1..k -> S] : k \in 0..n}

ConfWithBlock ==
    <<LineDefaults, LineOption, LineClose, LineKeywordOpen, LineMultipath,
      LineWwid(W1), LineAlias("testvol1"), LineMultipathClose, LineClose>>
ConfWithoutBlock == <<LineDefaults, LineOption, LineClose>>
MainConfs == {ConfWithBlock, ConfWithoutBlock, <<>>}

InitAlias ==
    /\ prog = "change_wwid_alias"
    /\ pc = "main"
    /\ impl \in {"scripts", "compellent"}
    /\ listing \in Listings
    /\ mounted \in BoundedSubsets({MapperPath("testvol1"), MapperPath("testvol2")},
                                  MaxMounted)
    /\ conf0 \in MainConfs
    /\ conf = conf0 /\ conf1 = <<>>
    /\ groups = <<>> /\ pvs = {}
    /\ argStd = {} /\ argMp = {}
    /\ assume_yes = FALSE
    /\ protected_devices = {} /\ blocked = {}
    /\ aliases = {} /\ disks = {}
    /\ flushed = {} /\ deleted = {}
    /\ verbose = FALSE /\ reported = {}
    /\ flush_failed = {} /\ write_failed = {}
    /\ argPairs = <<>> /\ wwids = <<>>
    /\ updates = 0 /\ answer = "" /\ reloaded = FALSE
    /\ NoSession

\* main up to the gate: wwid_alias, then process_aliases
AliasMain ==
    /\ prog = "change_wwid_alias"
    /\ pc = "main"
    /\ \E pairs \in BoundedSeqs(PairArgs, MaxPairs) \ {<<>>}, yes \in BOOLEAN :
        LET r == process_aliases(wwid_alias(listing), pairs, mounted) IN
        /\ argPairs' = pairs
        /\ assume_yes' = yes
        /\ wwids' \in dict_items(impl, r.table)
        /\ pc' = IF r.ok THEN "confirm" ELSE "exit"
    /\ UNCHANGED <<dsmVars, prog, hostVars, delVars, impl, conf0, conf1, conf, updates,
                   answer, reloaded>>

\* the gate lets the program on: update_config, then restart_multipath, which
\* reloads multipathd on releases 6 and 7 and exits on any other
AliasApply ==
    /\ prog = "change_wwid_alias"
    /\ pc = "confirm"
    /\ \E ans \in Answers, release \in Releases :
        /\ ans = "" \/ ~assume_yes
        /\ confirmed(assume_yes, ans)
        /\ answer' = ans
        /\ conf' = update_config(impl, conf, wwids)
        /\ conf1' = conf'
        /\ updates' = updates + 1
        /\ reloaded' = (release \in {"6", "7"})
        /\ pc' = IF release \in {"6", "7"} THEN "done" ELSE "exit"
    /\ UNCHANGED <<dsmVars, prog, assume_yes, hostVars, delVars, impl, argPairs, wwids, conf0>>

\* the operator did not answer 'y': main returns
AliasDecline ==
    /\ prog = "change_wwid_alias"
    /\ pc = "confirm"
    /\ \E ans \in Answers :
        /\ ~confirmed(assume_yes, ans)
        /\ answer' = ans
    /\ pc' = "done"
    /\ UNCHANGED <<dsmVars, prog, assume_yes, hostVars, delVars, impl, argPairs, wwids,
                   conf0, conf1, conf, updates, reloaded>>

NextAlias == AliasMain \/ AliasApply \/ AliasDecline

SpecAlias == InitAlias /\ [][NextAlias]_vars


----------------------------------------------------------------------------
(* The multipath.conf files update_config is applied to *)

ConfLines ==
    {LineKeywordOpen, LineKeyword, LineKeywordInline, LineOpen, LineClose,
     LineDefaults, LineOption, LineComment, LineMultipath, LineMultipathClose}

\* a file multipath accepts: sections at the top level, options inside
\* defaults, multipath blocks inside the one multipaths section, comments
\* anywhere; st is "top", "defaults", "keyword" (multipaths read, its brace
\* due on the next line), "multipaths" or "multipath"
RECURSIVE ValidConf(_, _, _)
ValidConf(lines, st, seen) ==
    IF lines = <<>> THEN st = "top"
    ELSE LET line == Head(lines)
             rest == Tail(lines)
         IN  IF line = LineComment THEN ValidConf(rest, st, seen)
             ELSE IF st = "top" THEN
                 IF line = LineDefaults THEN ValidConf(rest, "defaults", seen)
                 ELSE IF line = LineKeywordOpen /\ ~seen
                     THEN ValidConf(rest, "multipaths", TRUE)
                 ELSE IF line = LineKeyword /\ ~seen
                     THEN ValidConf(rest, "keyword", TRUE)
                 ELSE IF line = LineKeywordInline /\ ~seen
                     THEN ValidConf(rest, "top", TRUE)
                 ELSE FALSE
             ELSE IF st = "defaults" THEN
                 IF line = LineOption THEN ValidConf(rest, st, seen)
                 ELSE IF line = LineClose THEN ValidConf(rest, "top", seen)
                 ELSE FALSE
             ELSE IF st = "keyword" THEN
                 line = LineOpen /\ ValidConf(rest, "multipaths", seen)
             ELSE IF st = "multipaths" THEN
                 IF line = LineMultipath THEN ValidConf(rest, "multipath", seen)
                 ELSE IF line = LineClose THEN ValidConf(rest, "top", seen)
                 ELSE FALSE
             ELSE line = LineMultipathClose /\ ValidConf(rest, "multipaths", seen)

Confs == {f \in BoundedSeqs(ConfLines, MaxLines) : ValidConf(f, "top", FALSE)}

DictEntries == <<<<W1, "testvol1">>, <<W2, "data1">>, <<W9, "data2">>>>

Min(a, b) == IF a <= b THEN a ELSE b

Dicts == {SubSeq(DictEntries, 1, k) : k \in 0..Min(MaxEntries, Len(DictEntries))}

InitUpdate ==
    /\ prog = "update_config"
    /\ pc = "main"
    /\ impl \in {"scripts", "compellent"}
    /\ conf0 \in Confs
    /\ conf = conf0 /\ conf1 = <<>>
    /\ wwids \in UNION {dict_items(impl, t) : t \in Dicts}
    /\ listing = <<>> /\ mounted = {}
    /\ groups = <<>> /\ pvs = {}
    /\ argStd = {} /\ argMp = {}
    /\ assume_yes = TRUE
    /\ protected_devices = {} /\ blocked = {}
    /\ aliases = {} /\ disks = {}
    /\ flushed = {} /\ deleted = {}
    /\ verbose = FALSE /\ reported = {}
    /\ flush_failed = {} /\ write_failed = {}
    /\ argPairs = <<>>
    /\ updates = 0 /\ answer = "" /\ reloaded = FALSE
    /\ NoSession

\* update_config(filename, wwids)
UpdateConfig ==
    /\ prog = "update_config"
    /\ pc = "main"
    /\ conf' = update_config(impl, conf, wwids)
    /\ conf1' = conf'
    /\ updates' = 1
    /\ pc' = "updated"
    /\ UNCHANGED <<dsmVars, prog, assume_yes, hostVars, delVars, impl, argPairs, wwids,
                   conf0, answer, reloaded>>

\* update_config(filename, wwids) once more, with the same dictionary
UpdateConfigAgain ==
    /\ prog = "update_config"
    /\ pc = "updated"
    /\ conf' = update_config(impl, conf, wwids)
    /\ updates' = 2
    /\ pc' = "done"
    /\ UNCHANGED <<dsmVars, prog, assume_yes, hostVars, delVars, impl, argPairs, wwids,
                   conf0, conf1, answer, reloaded>>

NextUpdate == UpdateConfig \/ UpdateConfigAgain

SpecUpdate == InitUpdate /\ [][NextUpdate]_vars

----------------------------------------------------------------------------
(* compellent/utils.py: refresh *)

\* the host tools are not part of a refresh or of a session
NoHostTools ==
    /\ groups = <<>> /\ mounted = {} /\ pvs = {} /\ listing = <<>>
    /\ argStd = {} /\ argMp = {}
    /\ assume_yes = FALSE
    /\ protected_devices = {} /\ blocked = {}
    /\ aliases = {} /\ disks = {}
    /\ flushed = {} /\ deleted = {}
    /\ verbose = FALSE /\ reported = {}
    /\ flush_failed = {} /\ write_failed = {}
    /\ impl = "compellent" /\ argPairs = <<>> /\ wwids = <<>>
    /\ conf0 = <<>> /\ conf1 = <<>> /\ conf = <<>>
    /\ updates = 0 /\ answer = "" /\ reloaded = FALSE

\* a string is the sequence of its characters
UpperCase ==
    <<"A", "B", "C", "D", "E", "F", "G", "H", "I", "J", "K", "L", "M",
      "N", "O", "P", "Q", "R", "S", "T", "U", "V", "W", "X", "Y", "Z">>
LowerCase ==
    <<"a", "b", "c", "d", "e", "f", "g", "h", "i", "j", "k", "l", "m",
      "n", "o", "p", "q", "r", "s", "t", "u", "v", "w", "x", "y", "z">>

lower_char(c) ==
    IF \E i \in DOMAIN UpperCase : UpperCase[i] = c
    THEN LowerCase[CHOOSE i \in DOMAIN UpperCase : UpperCase[i] = c]
    ELSE c

\* str.lower()
str_lower(s) == [i \in DOMAIN s |-> lower_char(s[i])]

\* sub in s
contains(s, sub) ==
    \E i \in 1..(Len(s) - Len(sub) + 1) : SubSeq(s, i, i + Len(sub) - 1) = sub

Prd == <<"p", "r", "d">>

\* same_server with a fault: the names are compared as they were given
same_server_as_given(src, dest) == src = dest

\* src_server == dest_server, after both were put in lower case
same_server(src, dest) == str_lower(src) = str_lower(dest)

\* 'prd' in dest_server, after dest_server was put in lower case
production_server(dest) == contains(str_lower(dest), Prd)

\* refresh(dsm, ssh, src_server, dest_server, ...): how the call ends, what it
\* sent to the Dell Storage Manager and how many names it had resolved.
\* resolve_host is defined with the parameters (hostname, domains) and called
\* with the host name only: the call raises TypeError before the body of
\* resolve_host runs, so no refresh gets beyond line 152.
refresh(src, dest) ==
    IF same_server(src, dest)
    THEN [raised |-> "CompellentException",
          message |-> "Source cannot be the same as destination",
          requests |-> <<>>, lookups |-> 0]
    ELSE IF production_server(dest)
    THEN [raised |-> "CompellentException",
          message |-> "We do not allow refreshing to production servers",
          requests |-> <<>>, lookups |-> 0]
    ELSE [raised |-> "TypeError",
          message |-> "resolve_host() missing 1 required positional argument: 'domains'",
          requests |-> <<>>, lookups |-> 0]

----------------------------------------------------------------------------
(* compellent/utils.py: minutes_conversion *)

Digits == <<"0", "1", "2", "3", "4", "5", "6", "7", "8", "9">>

is_digit(c) == \E i \in DOMAIN Digits : Digits[i] = c
digit_value(c) == (CHOOSE i \in DOMAIN Digits : Digits[i] = c) - 1

\* the number a run of digits denotes
RECURSIVE digits_value(_)
digits_value(s) ==
    IF s = <<>> THEN 0
    ELSE 10 * digits_value(SubSeq(s, 1, Len(s) - 1)) + digit_value(s[Len(s)])

all_digits(s) == s # <<>> /\ \A i \in DOMAIN s : is_digit(s[i])

\* int(s): an optional sign and digits; anything else is a ValueError (the
\* expressions enumerated hold no white space and no underscore)
int_ok(s) ==
    \/ all_digits(s)
    \/ s # <<>> /\ Head(s) \in {"-", "+"} /\ all_digits(Tail(s))

int_value(s) ==
    IF Head(s) = "-" THEN 0 - digits_value(Tail(s))
    ELSE IF Head(s) = "+" THEN digits_value(Tail(s))
    ELSE digits_value(s)

Failure(kind, msg) == [raised |-> kind, message |-> msg, value |-> 0]
Minutes(n) == [raised |-> "", message |-> "", value |-> n]

\* multiplier with a fault: a month of 31 days
multiplier_long_month(modifier) ==
    IF modifier = "h" THEN 60
    ELSE IF modifier = "d" THEN 24 * 60
    ELSE IF modifier = "w" THEN 7 * 24 * 60
    ELSE IF modifier = "m" THEN 31 * 24 * 60
    ELSE 365 * 24 * 60

multiplier(modifier) ==
    IF modifier = "h" THEN 60
    ELSE IF modifier = "d" THEN 24 * 60
    ELSE IF modifier = "w" THEN 7 * 24 * 60
    ELSE IF modifier = "m" THEN 30 * 24 * 60
    ELSE 365 * 24 * 60

\* minutes_conversion(time)
minutes_conversion(time) ==
    IF time = <<>> THEN Failure("IndexError", "string index out of range")
    ELSE IF is_digit(time[Len(time)]) THEN
        IF ~int_ok(time) THEN Failure("CompellentException", "Cannot convert to integer")
        ELSE IF int_value(time) < 0
            THEN Failure("CompellentException", "Expiration time value cannot be negative")
        ELSE Minutes(int_value(time))
    ELSE LET value == SubSeq(time, 1, Len(time) - 1)
             modifier == lower_char(time[Len(time)])
         IN  IF ~int_ok(value)
                 THEN Failure("CompellentException", "Invalid time string format")
             ELSE IF int_value(value) < 0
                 THEN Failure("CompellentException", "Expiration time value cannot be negative")
             ELSE IF modifier \notin {"h", "d", "w", "m", "y"}
                 THEN Failure("CompellentException", "Invalid time modifier")
             ELSE Minutes(int_value(value) * multiplier(modifier))

\* the characters of the time strings enumerated
TimeChars == {"0", "1", "9", "-", "+", "h", "d", "w", "m", "y", "H", "x"}

\* at most this many characters in an enumerated time string
MaxTimeLen == 3

TimeStrings == UNION {[1..n -> TimeChars] : n \in 0..MaxTimeLen}

\* a caller of minutes_conversion
InitMinutes ==
    /\ prog = "minutes"
    /\ pc = "main"
    /\ time_string \in TimeStrings
    /\ src_server = <<>> /\ dest_server = <<>> /\ argv = <<>>
    /\ hostname = <<>> /\ domains = <<>> /\ dns = {}
    /\ requests = <<>> /\ lookups = 0
    /\ call = <<>> /\ returned = <<>> /\ raised = "" /\ message = ""
    /\ NoHostTools

\* minutes_conversion(time_string) returns or raises
Convert ==
    /\ prog = "minutes"
    /\ pc = "main"
    /\ LET r == minutes_conversion(time_string) IN
        /\ raised' = r.raised
        /\ message' = r.message
        /\ returned' = IF r.raised = "" THEN <<r.value>> ELSE <<>>
        /\ pc' = IF r.raised = "" THEN "done" ELSE "raised"
    /\ call' = <<"minutes_conversion", time_string>>
    /\ UNCHANGED <<prog, assume_yes, hostVars, delVars, cfgVars, src_server,
                   dest_server, argv, hostname, domains, dns, requests, lookups,
                   time_string>>

NextMinutes == Convert

SpecMinutes == InitMinutes /\ [][NextMinutes]_vars

----------------------------------------------------------------------------
(* compellent/utils.py: resolve_host *)

None == <<"None">>
Raised(kind, msg, sent) ==
    [raised |-> kind, message |-> msg, returned |-> None, requests |-> sent]
Returned(value, sent) ==
    [raised |-> "", message |-> "", returned |-> value, requests |-> sent]

\* hostname.split('.')[0]
RECURSIVE split_first(_)
split_first(s) ==
    IF s = <<>> \/ Head(s) = "." THEN <<>>
    ELSE <<Head(s)>> \o split_first(Tail(s))

\* socket.gethostbyname(name) returns: the name is one the resolver knows
gethostbyname(known, name) == name \in known

\* the domains the loop tries: up to the first with which the name resolves
RECURSIVE domains_tried(_, _, _)
domains_tried(known, short, ds) ==
    IF ds = <<>> THEN 0
    ELSE IF gethostbyname(known, short \o Head(ds)) THEN 1
    ELSE 1 + domains_tried(known, short, Tail(ds))

\* the items of domains after 'domains[i] = domains[i].lower()'
lower_domains(ds) == [i \in DOMAIN ds |-> str_lower(ds[i])]

UnableToResolve(n) ==
    [raised |-> "CompellentException", message |-> "Unable to resolve hostname",
     returned |-> None, lookups |-> n]

\* resolve_host(hostname, domains): how the call ends and how many names it
\* handed to socket.gethostbyname.  The message of the exception ends with
\* the host name in lower case.
resolve_host(known, name, ds) ==
    LET host == str_lower(name)
        low == lower_domains(ds)
    IN  IF \E i \in DOMAIN host : host[i] = "."
        THEN IF ~gethostbyname(known, host) THEN UnableToResolve(1)
             ELSE IF split_first(host) = <<>> THEN UnableToResolve(1)
             ELSE [raised |-> "", message |-> "",
                   returned |-> <<split_first(host), host>>, lookups |-> 1]
        ELSE LET n == domains_tried(known, host, low) IN
             IF n = 0 \/ ~gethostbyname(known, host \o low[n]) THEN UnableToResolve(n)
             ELSE IF host = <<>> \/ host \o low[n] = <<>> THEN UnableToResolve(n)
             ELSE [raised |-> "", message |-> "",
                   returned |-> <<host, host \o low[n]>>, lookups |-> n]

----------------------------------------------------------------------------
(* refresh and resolve_host as programs *)

HostNames ==
    {<<"d", "b", "A">>, <<"d", "b", "a">>, <<"D", "B", "A">>, <<"d", "b", "B">>,
     <<"p", "r", "d", "-", "d", "b", "B">>, <<"P", "r", "D", "-", "d", "b", "B">>,
     <<"d", "b", "P", "R", "D">>, <<"p", "r", "o", "d">>}

InitRefresh ==
    /\ prog = "refresh"
    /\ pc = "main"
    /\ src_server \in HostNames
    /\ dest_server \in HostNames
    /\ argv = <<>>
    /\ hostname = <<>> /\ domains = <<>> /\ dns = {}
    /\ requests = <<>> /\ lookups = 0
    /\ call = <<>> /\ returned = <<>> /\ raised = "" /\ message = ""
    /\ time_string = <<>>
    /\ NoHostTools

\* refresh(dsm, ssh, src_server, dest_server, volume, environment, mountpoint)
Refresh ==
    /\ prog = "refresh"
    /\ pc = "main"
    /\ LET r == refresh(src_server, dest_server) IN
        /\ raised' = r.raised
        /\ message' = r.message
        /\ requests' = requests \o r.requests
        /\ lookups' = lookups + r.lookups
    /\ call' = <<"refresh", src_server, dest_server>>
    /\ pc' = "raised"
    /\ UNCHANGED <<prog, assume_yes, hostVars, delVars, cfgVars, src_server,
                   dest_server, argv, hostname, domains, dns, returned, time_string>>

\* at most this many items in the list passed as domains
MaxDomains == 2

DomainCorp == <<".", "c", "o", "r", "p", ".", "e", "x", "a", "m", "p", "l", "e">>
DomainExample == <<".", "e", "x", "a", "m", "p", "l", "e", ".", "c", "o", "m">>
DomainExampleCapital == <<".", "E", "x", "a", "m", "p", "l", "e", ".", "c", "o", "m">>
DomainNames == {DomainCorp, DomainExample, DomainExampleCapital}

\* the host names passed to resolve_host: short and qualified names, the
\* empty string and a name that starts with a dot
ResolveNames ==
    {<<"d", "b", "B">>, <<"d", "b", "a">>, <<>>,
     <<"d", "b", "B">> \o DomainExample, <<"D", "B", "B">> \o DomainExampleCapital,
     DomainExample}

\* the names the resolver of the host can know
DnsNames ==
    {<<"d", "b", "b">> \o DomainExample, <<"d", "b", "b">> \o DomainCorp,
     <<"d", "b", "a">> \o DomainExample}

DomainLists == UNION {[1..n -> DomainNames] : n \in 0..MaxDomains}

\* a caller of resolve_host
InitResolve ==
    /\ prog = "resolve_host"
    /\ pc = "main"
    /\ hostname \in ResolveNames
    /\ domains \in DomainLists
    /\ dns \in SUBSET DnsNames
    /\ src_server = <<>> /\ dest_server = <<>> /\ argv = <<>>
    /\ requests = <<>> /\ lookups = 0
    /\ call = <<>> /\ returned = <<>> /\ raised = "" /\ message = ""
    /\ time_string = <<>>
    /\ NoHostTools

\* resolve_host(hostname, domains) returns or raises; the items of the
\* caller's list are in lower case from then on
ResolveHost ==
    /\ prog = "resolve_host"
    /\ pc = "main"
    /\ LET r == resolve_host(dns, hostname, domains) IN
        /\ raised' = r.raised
        /\ message' = r.message
        /\ returned' = r.returned
        /\ lookups' = lookups + r.lookups
        /\ pc' = IF r.raised = "" THEN "done" ELSE "raised"
    /\ domains' = lower_domains(domains)
    /\ call' = <<"resolve_host", hostname, domains>>
    /\ UNCHANGED <<prog, assume_yes, hostVars, delVars, cfgVars, src_server,
                   dest_server, argv, hostname, dns, requests, time_string>>

NextRefresh == Refresh \/ ResolveHost

SpecRefresh == (InitRefresh \/ InitResolve) /\ [][NextRefresh]_vars

----------------------------------------------------------------------------
(* compellent/connection.py: the module *)

\* what the compiler says of line 25, 'def __init__(self)' with no colon at
\* its end: "invalid syntax" up to Python 3.9, "expected ':'" from 3.10 on
SyntaxErrors == {"invalid syntax", "expected ':'"}

\* a program that imports compellent.connection to create a DSMConnection
InitDsm ==
    /\ prog = "dsm"
    /\ pc = "import"
    /\ src_server = <<>> /\ dest_server = <<>> /\ argv = <<>>
    /\ hostname = <<>> /\ domains = <<>> /\ dns = {}
    /\ requests = <<>> /\ lookups = 0
    /\ call = <<>> /\ returned = <<>> /\ raised = "" /\ message = ""
    /\ time_string = <<>>
    /\ NoHostTools

\* the variables a call leaves alone
DsmFrame ==
    UNCHANGED <<prog, assume_yes, hostVars, delVars, cfgVars, src_server,
                dest_server, argv, hostname, domains, dns, lookups, time_string>>

\* what a call leaves behind
Outcome(name, r) ==
    /\ call' = name
    /\ raised' = r.raised
    /\ message' = r.message
    /\ returned' = r.returned
    /\ requests' = requests \o r.requests

\* 'import compellent.connection': the module does not compile, so the
\* class statement is never executed and there is no DSMConnection to
\* create, no session and no request
ImportConnection ==
    /\ prog = "dsm" /\ pc = "import"
    /\ \E msg \in SyntaxErrors :
        Outcome(<<"import", "compellent.connection">>, Raised("SyntaxError", msg, <<>>))
    /\ pc' = "raised"
    /\ DsmFrame

NextDsm == ImportConnection

----------------------------------------------------------------------------
(* compellent/__main__.py: main *)

\* command lines: the datacenter, then a subcommand with its arguments
CommandLines ==
    {<<>>, <<"dc1">>, <<"dc1", "list", "server", "db*">>,
     <<"dc1", "list", "folder", "db*">>, <<"dc1", "snapshot", "vol1">>,
     <<"dc1", "clone", "vol1", "dbb", "/mnt/u01">>}

\* parser.parse_args() accepts the command line
parse_args(line) ==
    /\ Len(line) >= 1
    /\ \/ Len(line) = 1
       \/ /\ line[2] = "list" /\ Len(line) = 4
          /\ line[3] \in {"server", "volume"}
       \/ line[2] = "snapshot" /\ Len(line) = 3
       \/ line[2] = "clone" /\ Len(line) = 5

\* main(): argparse ends the program on a command line it rejects; on any
\* other the first statement after parse_args reads args.host, an attribute
\* no add_argument call defines, and the AttributeError ends main before the
\* session is created
main(line) ==
    IF ~parse_args(line) THEN Raised("SystemExit", "2", <<>>)
    ELSE Raised("AttributeError", "'Namespace' object has no attribute 'host'", <<>>)

InitCli ==
    /\ prog = "cli"
    /\ pc = "main"
    /\ argv \in CommandLines
    /\ src_server = <<>> /\ dest_server = <<>>
    /\ hostname = <<>> /\ domains = <<>> /\ dns = {}
    /\ requests = <<>> /\ lookups = 0
    /\ call = <<>> /\ returned = <<>> /\ raised = "" /\ message = ""
    /\ time_string = <<>>
    /\ NoHostTools

CliMain ==
    /\ prog = "cli" /\ pc = "main"
    /\ Outcome(<<"main">>, main(argv))
    /\ pc' = "raised"
    /\ DsmFrame

NextCli == CliMain

\* the programs that go to the Dell Storage Manager
InitSession == InitDsm \/ InitCli

NextSession == NextDsm \/ NextCli

SpecSession == InitSession /\ [][NextSession]_vars

\* the programs
Init ==
    \/ InitDelete \/ InitAlias \/ InitUpdate \/ InitRefresh \/ InitResolve
    \/ InitMinutes
    \/ InitSession

Next ==
    \/ NextDelete \/ NextAlias \/ NextUpdate \/ NextRefresh \/ NextMinutes
    \/ NextSession

Spec == Init /\ [][Next]_vars

----------------------------------------------------------------------------
(* Claims about delete_devices *)

Selected ==
    prog = "delete_devices" /\ pc \in {"confirm", "flushing", "deleting", "done", "error"}
Applied == prog = "delete_devices" /\ pc = "done" /\ assume_yes

\* C1: delete_devices never flushes an alias and never writes the control
\* files of a disk that is in the protected set disk_associations computed
\* in the same invocation.
C1_ProtectedNeverTouched ==
    /\ flushed \cap protected_devices = {}
    /\ deleted \cap protected_devices = {}

\* the device a path names: the disk without its partition number, or the
\* device-mapper name
DeviceOf(p) == p.name

\* the protected set as the specification defines it
SpecifiedProtected ==
    LET direct == {DeviceOf(p) : p \in mounted \cup pvs} IN
    direct \cup UNION {groups[a] : a \in direct \cap DOMAIN groups}

\* C2: the protected set returned by disk_associations is the union of the
\* devices backing mounted filesystems, the LVM physical volumes (plain disk
\* or multipath alias) and the member disks of every protected alias.
C2_ProtectedIsUnion == Selected => protected_devices = SpecifiedProtected

\* C3: a requested disk that is a member of alias a brings a into the alias
\* selection and every member of a into the disk selection (each selected
\* item ends in the plan or is reported as blocked); when neither a nor a
\* member is protected and the disk is the whole request, the plan is
\* flush = {a}, delete = members of a, blocked = {}, and that is what the
\* loops act on.
C3_MemberSelectsAliasAndSiblings ==
    Selected =>
        \A a \in DOMAIN groups : \A d \in argStd \cap groups[a] :
            /\ a \in aliases \cup blocked
            /\ groups[a] \subseteq disks \cup blocked
            /\ (/\ argStd = {d} /\ argMp = {}
                /\ protected_devices \cap ({a} \cup groups[a]) = {})
               => /\ aliases = {a} /\ disks = groups[a] /\ blocked = {}
                  /\ Applied => (flushed = {a} /\ deleted = groups[a])

C3_Witness ==
    /\ Applied
    /\ argStd = {"sdg"} /\ argMp = {}
    /\ "testvol2" \in DOMAIN groups
    /\ groups["testvol2"] = {"sdg", "sdh", "sdi", "sdj"}
    /\ flushed = {"testvol2"}
    /\ deleted = {"sdg", "sdh", "sdi", "sdj"}
    /\ blocked = {}

\* C4: in every plan delete_devices computes and applies, a flushed alias has
\* all its member disks in the delete set, and a member disk in the delete
\* set has its alias in the flush set; when the loops ran to their end that
\* is what was flushed and written.
C4_NoPartialMultipathDeletion ==
    Selected =>
        \A a \in DOMAIN groups :
            /\ a \in aliases => groups[a] \subseteq disks
            /\ groups[a] \cap disks # {} => a \in aliases
            /\ Applied => (a \in flushed => groups[a] \subseteq deleted)
            /\ groups[a] \cap deleted # {} => a \in flushed

\* a plan is applied that keeps an alias although one of its members is
\* protected and was subtracted, and that drops another alias with its members
C4_Witness ==
    /\ Applied
    /\ \E a \in flushed : groups[a] # {} /\ groups[a] \cap protected_devices # {}
    /\ \E a \in DOMAIN groups : a \notin flushed /\ groups[a] # {}

----------------------------------------------------------------------------
(* Claims about the confirmation gate *)

Destructive ==
    \/ flushed # {} \/ deleted # {}
    \/ updates > 0 \/ conf # conf0 \/ reloaded

\* C5: delete_devices and main of change_wwid_alias flush, delete, rewrite
\* multipath.conf or reload multipathd only when assume_yes is set or the
\* operator answered y (in either case) at the prompt of that invocation;
\* after any other answer the host is as it was.
C5_DestructiveOnlyAfterConsent ==
    prog \in {"delete_devices", "change_wwid_alias"} =>
        /\ Destructive => (assume_yes \/ lower(answer) = "y")
        /\ (pc = "done" /\ ~assume_yes /\ lower(answer) # "y") =>
               /\ conf = conf0 /\ ~reloaded
               /\ flushed = {} /\ deleted = {}

\* the operator answers y without assume_yes and the file is rewritten and
\* multipathd reloaded
C5_Witness ==
    /\ prog = "change_wwid_alias"
    /\ pc = "done"
    /\ ~assume_yes /\ answer = "y"
    /\ updates = 1 /\ conf # conf0 /\ reloaded

----------------------------------------------------------------------------
(* Claims about update_config *)

IsPrefix(s, t) == Len(s) <= Len(t) /\ SubSeq(t, 1, Len(s)) = s
IsSuffix(s, t) == Len(s) <= Len(t) /\ SubSeq(t, Len(t) - Len(s) + 1, Len(t)) = s

\* the line of a valid file that opens the multipaths section, 0 if none
KeywordLine(f) ==
    IF \E i \in DOMAIN f : re_multipaths(f[i])
    THEN CHOOSE i \in DOMAIN f : re_multipaths(f[i])
    ELSE 0

\* the line of a valid file that closes the multipaths section
SectionEnd(f) ==
    LET k == KeywordLine(f) IN
    IF f[k] = LineKeywordInline THEN k
    ELSE CHOOSE j \in DOMAIN f :
            /\ j > k /\ f[j] = LineClose
            /\ \A i \in (k + 1)..(j - 1) : f[i] # LineClose

LinesBefore(f) == SubSeq(f, 1, KeywordLine(f) - 1)
LinesAfter(f) == SubSeq(f, SectionEnd(f) + 1, Len(f))

Updated == prog = "update_config" /\ updates >= 1

\* C6: update_config leaves every line outside the top-level multipaths
\* section unchanged and in the same order, for every input file.
C6_OutsideLinesKept ==
    Updated =>
        IF KeywordLine(conf0) = 0
        THEN IsPrefix(conf0, conf1)
        ELSE /\ IsPrefix(LinesBefore(conf0), conf1)
             /\ IsSuffix(LinesAfter(conf0), conf1)
             /\ Len(LinesBefore(conf0)) + Len(LinesAfter(conf0)) <= Len(conf1)

\* C7: update_config applied twice with the same dictionary leaves the file
\* as the first application left it.
C7_Idempotent == (prog = "update_config" /\ updates = 2) => conf = conf1

\* C8: applied to a file without a multipaths section, update_config (of
\* scripts/ and of compellent/) appends a new multipaths section holding one
\* multipath entry per dictionary entry, for every dictionary.
C8_MissingSectionAppended ==
    (Updated /\ KeywordLine(conf0) = 0) =>
        \E sep \in {<<>>, <<LineBlank>>} :
            conf1 = conf0 \o sep \o <<LineKeywordOpen>> \o
                    multipath_entries(wwids) \o <<LineClose>>

----------------------------------------------------------------------------
(* Claims about process_aliases *)

Processed == prog = "change_wwid_alias" /\ pc # "main"

\* every wwid line for w in the file is followed by the alias line for a
AliasInConf(f, w, a) ==
    \A i \in DOMAIN f :
        f[i] = LineWwid(w) => (i < Len(f) /\ f[i + 1] = LineAlias(a))

\* C9: whatever pairs are passed, a WWID whose alias device is mounted keeps
\* its alias in the dictionary, and the update_config that follows writes
\* that alias for it to multipath.conf (scripts/change_wwid_alias.py; the
\* compellent/ variant writes no other alias for it).
C9_MountedAliasKept ==
    Processed =>
        \A w \in DictKeys(wwid_alias(listing)) :
            LET a == DictGet(wwid_alias(listing), w) IN
            is_mounted(mounted, a) =>
                /\ w \in DictKeys(wwids) /\ DictGet(wwids, w) = a
                /\ updates >= 1 =>
                    /\ AliasInConf(conf, w, a)
                    /\ impl = "scripts" => \E i \in DOMAIN conf : conf[i] = LineWwid(w)

\* two pairs name the WWID of the mounted testvol1 and the file is rewritten
C9_Witness ==
    /\ Processed /\ pc = "done" /\ updates = 1
    /\ impl = "scripts"
    /\ argPairs = <<<<W1, ":", "data1">>, <<W1, ":", "data2">>>>
    /\ is_mounted(mounted, "testvol1")
    /\ W1 \in DictKeys(wwids) /\ DictGet(wwids, W1) = "testvol1"
    /\ conf0 = ConfWithoutBlock
    /\ \E i \in 1..(Len(conf) - 1) :
          conf[i] = LineWwid(W1) /\ conf[i + 1] = LineAlias("testvol1")

\* process_aliases as the specification words it: skip when the WWID is known
\* and its alias is mounted, otherwise set the entry
RECURSIVE SpecifiedAliases(_, _, _)
SpecifiedAliases(table, pairs, m) ==
    IF pairs = <<>> THEN table
    ELSE LET w == Head(pairs)[1]
             skip == w \in DictKeys(table) /\ is_mounted(m, DictGet(table, w))
         IN  SpecifiedAliases(IF skip THEN table ELSE DictSet(table, w, Head(pairs)[3]),
                              Tail(pairs), m)

\* C10: process_aliases sets table[wwid] to the requested alias for every
\* well-formed pair unless the WWID is in the table with a mounted alias; a
\* pair whose WWID is not in the table adds the entry.
C10_EveryPairApplied ==
    (prog = "change_wwid_alias" /\ pc \in {"confirm", "done"}) =>
        Range(wwids) = Range(SpecifiedAliases(wwid_alias(listing), argPairs, mounted))

----------------------------------------------------------------------------
(* Claims about refresh *)

Refreshed == prog = "refresh" /\ pc = "raised"

\* C12: refresh raises before any name resolution and before any request to
\* the array when the source and destination host names are equal ignoring
\* case, or when the destination host name contains 'prd' in any letter case.
C12_ValidationBeforeAnyCall ==
    (Refreshed /\ (\/ str_lower(src_server) = str_lower(dest_server)
                   \/ contains(str_lower(dest_server), Prd))) =>
        /\ raised = "CompellentException"
        /\ message \in {"Source cannot be the same as destination",
                        "We do not allow refreshing to production servers"}
        /\ lookups = 0
        /\ requests = <<>>

\* source dbA and destination dba: refused as the same host, nothing sent
C12_Witness ==
    /\ Refreshed
    /\ src_server = <<"d", "b", "A">> /\ dest_server = <<"d", "b", "a">>
    /\ raised = "CompellentException"
    /\ message = "Source cannot be the same as destination"
    /\ lookups = 0 /\ requests = <<>>

----------------------------------------------------------------------------
(* Claims about minutes_conversion *)

Converted == prog = "minutes" /\ pc \in {"done", "raised"}

\* minutes per unit, from the table of the specification
MinutesPer(c) ==
    CASE c = "h" -> 60 [] c = "d" -> 1440 [] c = "w" -> 10080
      [] c = "m" -> 43200 [] c = "y" -> 525600

\* <n> or <n><c>: the digits and the last character
NumberOf(t) == IF is_digit(t[Len(t)]) THEN t ELSE SubSeq(t, 1, Len(t) - 1)

\* a negative value: a minus sign, digits that are not all zero, and
\* possibly one more character
NegativeValue(t) ==
    /\ Len(t) >= 2 /\ t[1] = "-"
    /\ all_digits(Tail(NumberOf(t)))
    /\ digits_value(Tail(NumberOf(t))) > 0

\* the last character is neither a digit nor one of h, d, w, m, y in either
\* case
UnknownModifier(t) ==
    /\ t # <<>>
    /\ ~is_digit(t[Len(t)])
    /\ t[Len(t)] \notin {"h", "d", "w", "m", "y", "H", "D", "W", "M", "Y"}

\* C21: <n><modifier> with n a non-negative integer and modifier one of h, d,
\* w, m, y converts to n times 60, 1440, 10080, 43200, 525600; a plain
\* non-negative integer converts to itself; a negative value and an unknown
\* modifier raise CompellentException.
C21_MinutesConversion ==
    Converted =>
        LET t == time_string IN
        /\ (all_digits(t)) =>
               (raised = "" /\ returned = <<digits_value(t)>>)
        /\ (/\ Len(t) >= 2 /\ all_digits(NumberOf(t))
            /\ t[Len(t)] \in {"h", "d", "w", "m", "y"}) =>
               (/\ raised = ""
                /\ returned = <<digits_value(NumberOf(t)) * MinutesPer(t[Len(t)])>>)
        /\ (NegativeValue(t) \/ UnknownModifier(t)) =>
               raised = "CompellentException"

\* 19d is converted to 19 * 1440 minutes
C21_Witness ==
    /\ Converted
    /\ time_string = <<"1", "9", "d">>
    /\ raised = "" /\ returned = <<27360>>

----------------------------------------------------------------------------
(* Claims about the deletion plan and its application *)

\* C23: every device delete_devices takes out of the selection because it
\* is protected is named in what the program reports, with and without
\* --verbose.
C23_BlockedReported == Selected => blocked \subseteq reported

LoopsRan == prog = "delete_devices" /\ assume_yes /\ pc \in {"done", "error"}

\* C24: when the plan is applied, 'multipath -f' is run for every alias of
\* the plan and the control files of every disk of the plan are written or
\* at least tried, whichever flush or write failed.
C24_FailureDoesNotStopTheRest ==
    LoopsRan =>
        /\ flushed = aliases
        /\ deleted \cup write_failed = disks

\* C28: the protected set and the plan are fixed before the confirmation
\* and the loops act on that plan: a device that another process mounts or
\* makes a physical volume between disk_associations and the loops is flushed
\* and deleted all the same.
C28_ProtectedSetComputedOnce ==
    /\ [](Applied => (flushed = aliases /\ deleted = disks))
    /\ [][Running =>
              /\ protected_devices' = protected_devices
              /\ aliases' = aliases /\ disks' = disks]_vars

\* a disk that became protected after the selection was deleted
C28_Witness ==
    /\ Applied
    /\ \E d \in deleted :
          /\ d \notin protected_devices
          /\ d \in disk_associations_protected(groups, mounted, pvs)

\* the sd* block devices of the host
ExistingSdDevices == BlockDevices \ {"sr0"}

\* C30: main ends without calling delete_devices, so with no plan, no flush
\* and no deletion, when a requested disk is no sd* block device of the
\* host, when a requested alias is no multipath alias of the host, or when
\* nothing was requested.
C30_InvalidRequestExits ==
    (prog = "delete_devices" /\ pc # "main") =>
        ((\/ argStd \ ExistingSdDevices # {}
          \/ argMp \ DOMAIN groups # {}
          \/ argStd = {} /\ argMp = {})
         => /\ pc = "exit"
            /\ aliases = {} /\ disks = {}
            /\ flushed = {} /\ deleted = {})

\* sda and sr0 were requested with --assume_yes: main exits, sda stays
C30_Witness ==
    /\ prog = "delete_devices"
    /\ pc = "exit"
    /\ assume_yes
    /\ argStd = {"sda", "sr0"}
    /\ deleted = {}

----------------------------------------------------------------------------
(* Claims about the arguments of change_wwid_alias *)

\* the argument is a word, a colon and a word, and nothing else
WwidAliasForm(pair) ==
    /\ Len(pair) = 3
    /\ pair[1] \notin {":", ""}
    /\ pair[2] = ":"
    /\ pair[3] \notin {":", ""}

\* C29: when an argument of change_wwid_alias does not have the wwid:alias
\* form, the program ends before the confirmation: multipath.conf is as it
\* was and multipathd was not reloaded, whatever pairs came before it.
C29_MalformedPairAborts ==
    (/\ prog = "change_wwid_alias" /\ pc # "main"
     /\ \E i \in DOMAIN argPairs : ~WwidAliasForm(argPairs[i]))
    => /\ pc = "exit"
       /\ updates = 0 /\ conf = conf0 /\ ~reloaded

====
